---- MODULE Spec2Model ----
(***************************************************************************)
(* Continuation-based double-layer solver of src/edl.py.                   *)
(*                                                                         *)
(* Arrays are 1-based here and 0-based in the source: the source's index i *)
(* is i+1 below, and its pivot i_pzc is i_pzc+1 below.                     *)
(*                                                                         *)
(* The external BVP solver (scipy.integrate.solve_bvp) is an uninterpreted *)
(* function of its arguments: a mesh or a state array is the chain of      *)
(* solves that produced it, starting from the empty chain, which stands    *)
(* for the default mesh create_x_mesh(100, 1000) and for the all-zero      *)
(* 2 x n guess. Whether a solve converges is a nondeterministic input.     *)
(***************************************************************************)
EXTENDS Integers, Sequences, FiniteSets, TLC

\* ---------------------------------------------------------------- bounds
\* Longest control array handed to a sweep.
MaxLen == 4

\* Longest control array handed to a sweep whose sub-sweeps run side by side.
ParLen == 3

\* Shortest control array: np.gradient(..., edge_order=2) needs 3 samples.
MinLen == 3

\* Default of the p_h argument of potential_sweep / potential_sequential_solve
\* / compute_profiles.
DefaultPh == 7

\* constants.PKW, used by bulk_densities.
PKW == 14

\* Control values of a potential sweep, in grid units of the caller.
PotentialValues == {-1, 0, 1}

\* pH values of a pH sweep.
PhValues == {2, 3, 7}

\* Values of the p_h argument of potential_sweep.
PhArgs == {3, DefaultPh}

\* Twice pH_pzc = -1/2*log10(K_SILICA_A*K_SILICA_B); the equilibrium constants
\* live in constants.py, so the value is a representative one (pH_pzc = 2.5).
TwicePhPzc == 5

\* Control arrays of length MinLen..MaxLen over a value set.
Arrays(S) == UNION {[1..n -> S] : n \in MinLen..MaxLen}
ParArrays(S) == UNION {[1..n -> S] : n \in MinLen..ParLen}

\* -------------------------------------------------------- sequence helpers
Abs(v) == IF v < 0 THEN 0 - v ELSE v

\* a[::-1]
Reverse(s) == [k \in 1..Len(s) |-> s[Len(s) - k + 1]]

\* np.zeros(shape): 0.0 is the empty tuple, any computed quantity a non-empty one
Zero == <<>>
Zeros(n) == [k \in 1..n |-> Zero]

\* np.max over a non-empty array of residual levels
MaxOfLast(a) == a[Len(a)]
MaxOf(a) == CHOOSE v \in {a[k] : k \in 1..Len(a)} : \A k \in 1..Len(a) : a[k] <= v

\* np.argmin: index of the first minimum
ArgMinLast(d) ==
    CHOOSE i \in 1..Len(d) :
        /\ \A j \in 1..Len(d) : d[i] <= d[j]
        /\ \A j \in (i+1)..Len(d) : d[j] > d[i]
ArgMin(d) ==
    CHOOSE i \in 1..Len(d) :
        /\ \A j \in 1..Len(d) : d[i] <= d[j]
        /\ \A j \in 1..(i-1) : d[j] > d[i]

\* ------------------------------------------------------------ model objects
Kinds == {"GouyChapman", "Borukhov", "Abrashkin", "ProtonLPB"}

\* A bulk concentration sign * 10^exp mol/L.
Conc(sign, exp) == [sign |-> sign, exp |-> exp]
ValidConc == Conc(1, 0 - 3)
ConcChoices == {Conc(0 - 1, 0 - 3), Conc(0, 0), Conc(1, 0 - 6), ValidConc}

NoModel == [kind |-> "none", c_0 |-> Conc(0, 0), n_0 |-> 0, kappa_debye |-> "unset",
            name |-> "none"]

\* np.sqrt of a positive multiple of n_0: nan (with a warning, no exception)
\* below zero.
SqrtSign(s) == IF s < 0 THEN "nan" ELSE IF s = 0 THEN "zero" ELSE "positive"

\* DoubleLayerModel.__init__ and the subclasses' __init__: n_0 keeps the sign
\* of c_0; ProtonLPB recomputes kappa_debye from n_max, which is positive.
NewModel(kind, c) ==
    [kind |-> kind,
     c_0 |-> c,
     n_0 |-> c.sign,
     kappa_debye |-> IF kind = "ProtonLPB" THEN "positive" ELSE SqrtSign(c.sign),
     name |-> kind]

\* ------------------------------------------------------------- the solver
\* ode_lambda(p_h): the RHS closure is the p_h it captured
OdeLambda(ph) == ph

\* dirichlet_lambda(phi0) / insulator_bc_lambda(p_h)
DirichletLambda(phi0) == [kind |-> "dirichlet", val |-> phi0]
InsulatorBcLambda(ph) == [kind |-> "insulator", val |-> ph]

\* The default mesh and the all-zero guess.
DefaultMesh == <<>>
ZeroGuess == <<>>

\* solve_bvp(fun, bc, x, y): the returned mesh and state are functions of all
\* four arguments; res is the level of np.max(sol.rms_residuals), 0 within
\* the tolerance and 1 above it.
SolveBvp(fun, bc, x, y, conv) ==
    LET step == [rhs |-> fun, bc |-> bc, conv |-> conv]
    IN  [x |-> Append(x, step),
         y |-> Append(y, step),
         rhs |-> fun,
         bc |-> bc,
         res |-> IF conv THEN 0 ELSE 1]

\* compute_profiles(sol) / ProtonLPB.compute_profiles(sol, p_h): ph is the pH
\* the species densities are reconstructed with, <<>> for the models whose
\* densities take no pH.
ComputeProfiles(m, sol, ph) ==
    [x |-> sol.x,
     y |-> sol.y,
     bc |-> sol.bc,
     ph |-> IF m.kind = "ProtonLPB" THEN <<ph>> ELSE <<>>,
     name |-> m.name]

\* prf.efield[0] * C.EPS_0 * prf.eps[0]
Charge(prf) == <<"charge", prf>>

\* prf.phi[0]
SurfacePhi(prf) == <<"phi", prf>>

\* ------------------------------------------------------- bulk densities
\* A concentration in mol/L as signed decimal digits: the number is the sum of
\* d[e] * 10^e over the exponents e. Sums and differences are digit-wise and
\* exact; with every digit within -9..9 the sign is that of the leading digit.
Exps == (0 - PKW)..0
Pow10(e) == [k \in Exps |-> IF k = e THEN 1 ELSE 0]
NumOfConc(c) == [k \in Exps |-> IF k = c.exp THEN c.sign ELSE 0]
NumAdd(a, b) == [k \in Exps |-> a[k] + b[k]]
NumSub(a, b) == [k \in Exps |-> a[k] - b[k]]
NumSign(a) ==
    IF \A k \in Exps : a[k] = 0 THEN 0
    ELSE LET top == CHOOSE k \in Exps : a[k] # 0 /\ \A j \in Exps : j > k => a[j] = 0
         IN  IF a[top] < 0 THEN 0 - 1 ELSE 1

\* ProtonLPB.bulk_densities(p_h), the ionic entries c_bulk[0..3]:
\* [H+], [OH-], [Cat], [An]. Nothing is validated and nothing raises.
BulkDensitiesSaltAnion(m, ph) ==
    LET h == Pow10(0 - ph)
        oh == Pow10(ph - PKW)
        cat == NumSub(NumOfConc(m.c_0), h)
        an == NumOfConc(m.c_0)
    IN  <<h, oh, cat, an>>
BulkDensities(m, ph) ==
    LET h == Pow10(0 - ph)
        oh == Pow10(ph - PKW)
        cat == NumSub(NumOfConc(m.c_0), h)
        an == NumSub(NumAdd(h, cat), oh)
    IN  <<h, oh, cat, an>>

\* ------------------------------------------------------------------ state
VARIABLES
    model,          \* the model instance: its attributes
    pc,             \* "new", "idle", "neg", "pos", "done", "raised"
    op,             \* the sweep being run: "potential_sweep" or "ph_sweep"
    potential,      \* the input control array (potential, or ph_range)
    p_h,            \* the p_h argument of potential_sweep
    i_pzc,          \* the pivot index
    chg,            \* the sweep's charge array
    phi,            \* ph_sweep's surface-potential array
    profiles_neg,   \* profile list returned by the reversed sub-sweep
    seq,            \* frame of the running sequential solve
    ret,            \* what the last sequential solve returned
    solves,         \* every solve_bvp call made so far, in order
    stdout,         \* the lines printed so far
    sweep,          \* the PotentialSweepSolution returned, <<>> before
    fwd,            \* frame of a sequential solve running beside seq
    evals           \* calls of the models' pure methods: arguments and results

vars == <<model, pc, op, potential, p_h, i_pzc, chg, phi, profiles_neg, seq, ret,
          solves, stdout, sweep, fwd, evals>>

\* create_x_mesh(100, 1000) on a model: the default mesh, scaled by kappa_debye
CreateXMesh(m) == DefaultMesh

\* The locals of potential_sequential_solve / insulator_sequential_solve
\* before the loop; call numbers the call within the sweep.
SequentialInit(pot, ph, call) ==
    [potential |-> pot,
     p_h |-> ph,
     call |-> call,
     i |-> 1,
     chg |-> Zeros(Len(pot)),
     phi |-> Zeros(Len(pot)),
     max_res |-> [k \in 1..Len(pot) |-> 0],
     profile_list |-> <<>>,
     x_axis |-> CreateXMesh(model),
     y_initial |-> ZeroGuess]

NoFrame == SequentialInit(<<>>, DefaultPh, 0)

\* x_axis = sol.x; y_initial = sol.y
ContinuationStale(fr, sol) == [fr EXCEPT !.x_axis = sol.x]
Continuation(fr, sol) == [fr EXCEPT !.x_axis = sol.x, !.y_initial = sol.y]

\* One pass of the loop of potential_sequential_solve, after the solve.
PotentialLoopBodyAbort(fr, sol, prf) ==
    IF sol.res = 0
    THEN [Continuation(fr, sol) EXCEPT
            !.chg[fr.i] = Charge(prf),
            !.max_res[fr.i] = sol.res,
            !.profile_list = Append(@, prf),
            !.i = @ + 1]
    ELSE [fr EXCEPT !.i = Len(fr.potential) + 1]
PotentialLoopBody(fr, sol, prf) ==
    [Continuation(fr, sol) EXCEPT
        !.chg[fr.i] = Charge(prf),
        !.max_res[fr.i] = sol.res,
        !.profile_list = Append(@, prf),
        !.i = @ + 1]

\* One pass of the loop of insulator_sequential_solve, after the solve.
InsulatorLoopBodyNoPhi(fr, sol, prf) ==
    [Continuation(fr, sol) EXCEPT
        !.chg[fr.i] = Charge(prf),
        !.max_res[fr.i] = sol.res,
        !.profile_list = Append(@, prf),
        !.i = @ + 1]
InsulatorLoopBody(fr, sol, prf) ==
    [Continuation(fr, sol) EXCEPT
        !.chg[fr.i] = Charge(prf),
        !.phi[fr.i] = SurfacePhi(prf),
        !.max_res[fr.i] = sol.res,
        !.profile_list = Append(@, prf),
        !.i = @ + 1]

\* The record of one solve_bvp call: what it was given, what it returned, and
\* the profile reconstructed from it.
SolveCall(fr, fun, bc, sol, prf) ==
    [call |-> fr.call, k |-> fr.i, rhs |-> fun, bc |-> bc,
     x0 |-> fr.x_axis, y0 |-> fr.y_initial, sol |-> sol, prf |-> prf]

\* print(f"Sweep from ... to .... Maximum relative residual: {np.max(max_res)}")
PrintLine(fr) ==
    [first |-> fr.potential[1],
     last |-> fr.potential[Len(fr.potential)],
     max_res |-> MaxOf(fr.max_res)]

\* return chg, profile_list
PotentialReturn(fr) == [chg |-> fr.chg, profile_list |-> fr.profile_list]

\* return chg, phi, profile_list
InsulatorReturn(fr) == [chg |-> fr.chg, phi |-> fr.phi, profile_list |-> fr.profile_list]

\* potential[i_pzc::-1]
ReversedPartAscending(a, p) == SubSeq(a, 1, p)
ReversedPart(a, p) == [k \in 1..p |-> a[p - k + 1]]

\* potential[i_pzc::1]
ForwardPartSkip(a, p) == SubSeq(a, p + 1, Len(a))
ForwardPart(a, p) == SubSeq(a, p, Len(a))

\* chg[:i_pzc+1] = part
AssignPrefix(a, p, part) == [k \in 1..Len(a) |-> IF k <= p THEN part[k] ELSE a[k]]

\* chg[i_pzc:] = part
AssignSuffixAfter(a, p, part) ==
    [k \in 1..Len(a) |-> IF k > p THEN part[k - p + 1] ELSE a[k]]
AssignSuffix(a, p, part) ==
    [k \in 1..Len(a) |-> IF k >= p THEN part[k - p + 1] ELSE a[k]]

\* np.gradient(f, edge_order=2): the samples each difference is taken over
Gradient2(f) ==
    [k \in 1..Len(f) |->
        IF k = 1 THEN <<f[1], f[2], f[3]>>
        ELSE IF k = Len(f) THEN <<f[Len(f) - 2], f[Len(f) - 1], f[Len(f)]>>
        ELSE <<f[k - 1], f[k + 1]>>]

\* np.gradient(f): first-order edges
Gradient1(f) ==
    [k \in 1..Len(f) |->
        IF k = 1 THEN <<f[1], f[2]>>
        ELSE IF k = Len(f) THEN <<f[Len(f) - 1], f[Len(f)]>>
        ELSE <<f[k - 1], f[k + 1]>>]

\* np.gradient(chg, edge_order=2)/np.gradient(abscissa) * 1e2
Capacitance(c, abscissa) ==
    [k \in 1..Len(c) |-> [dchg |-> Gradient2(c)[k], dphi |-> Gradient1(abscissa)[k]]]

\* PotentialSweepSolution(phi=..., charge=chg, cap=cap,
\*                        profiles=profiles_neg[::-1] + profiles_pos, name=...)
SweepSolution(abscissa, c, neg, pos) ==
    [phi |-> abscissa,
     charge |-> c,
     cap |-> Capacitance(c, abscissa),
     profiles |-> Reverse(neg) \o pos,
     name |-> model.name]

\* np.argmin(np.abs(potential))
PotentialPivot(a) == ArgMin([k \in 1..Len(a) |-> Abs(a[k])])

\* np.argmin(np.abs(ph_range - ph_pzc)), distances doubled to stay integral
PhPivot(a) == ArgMin([k \in 1..Len(a) |-> Abs(2 * a[k] - TwicePhPzc)])

\* ---------------------------------------------------------------- actions
Idle ==
    /\ pc = "idle"
    /\ op = "none" /\ potential = <<>> /\ p_h = DefaultPh /\ i_pzc = 0
    /\ chg = <<>> /\ phi = <<>> /\ profiles_neg = <<>>
    /\ seq = NoFrame /\ ret = <<>> /\ solves = <<>> /\ stdout = <<>> /\ sweep = <<>>
    /\ fwd = NoFrame /\ evals = <<>>

\* The sweeps live in the base class and differ between models only through
\* compute_profiles, which takes a pH for ProtonLPB alone: one model of each
\* sort stands for the sweeps of all four (SpecCtor constructs every kind).
SweepKinds == {"GouyChapman", "ProtonLPB"}

\* A model constructed from a valid concentration, nothing called yet.
Init ==
    /\ model \in {NewModel(k, ValidConc) : k \in SweepKinds}
    /\ Idle

\* potential_sweep(potential, tol, p_h) up to the first solve: the pivot, the
\* zeroed charge array, and the entry into the reversed sub-sweep.
PotentialSweepStoring(a, ph) ==
    /\ pc = "idle"
    /\ op' = "potential_sweep"
    /\ potential' = a
    /\ p_h' = ph
    /\ i_pzc' = PotentialPivot(a)
    /\ chg' = Zeros(Len(a))
    /\ seq' = SequentialInit(ReversedPart(a, PotentialPivot(a)), ph, 1)
    /\ pc' = "neg"
    /\ model' = [model EXCEPT !.name = "swept"]
    /\ UNCHANGED <<fwd, evals, phi, profiles_neg, ret, solves, stdout, sweep>>
PotentialSweep(a, ph) ==
    /\ pc = "idle"
    /\ op' = "potential_sweep"
    /\ potential' = a
    /\ p_h' = ph
    /\ i_pzc' = PotentialPivot(a)
    /\ chg' = Zeros(Len(a))
    /\ seq' = SequentialInit(ReversedPart(a, PotentialPivot(a)), ph, 1)
    /\ pc' = "neg"
    /\ UNCHANGED <<fwd, evals, model, phi, profiles_neg, ret, solves, stdout, sweep>>

\* One iteration of the loop of potential_sequential_solve. solve_bvp raises
\* ValueError on a mesh that is not strictly increasing (kappa_debye = 0).
PotentialSolveStep ==
    /\ pc \in {"neg", "pos"}
    /\ op = "potential_sweep"
    /\ seq.i <= Len(seq.potential)
    /\ \E conv \in BOOLEAN :
        LET fun == OdeLambda(seq.p_h)
            bc == DirichletLambda(seq.potential[seq.i])
            sol == SolveBvp(fun, bc, seq.x_axis, seq.y_initial, conv)
            prf == ComputeProfiles(model, sol, DefaultPh)
        IN  /\ solves' = Append(solves, SolveCall(seq, fun, bc, sol, prf))
            /\ IF model.kappa_debye = "zero"
               THEN /\ pc' = "raised"
                    /\ UNCHANGED seq
               ELSE /\ seq' = PotentialLoopBody(seq, sol, prf)
                    /\ UNCHANGED pc
    /\ UNCHANGED <<fwd, evals, model, op, potential, p_h, i_pzc, chg, phi, profiles_neg, ret,
                   stdout, sweep>>

\* The reversed sub-sweep returns; chg[:i_pzc+1] = chg_neg[::-1]; the forward
\* sub-sweep is entered, with p_h left to its default.
PotentialSweepForward ==
    /\ pc = "neg"
    /\ op = "potential_sweep"
    /\ seq.i > Len(seq.potential)
    /\ stdout' = Append(stdout, PrintLine(seq))
    /\ ret' = PotentialReturn(seq)
    /\ profiles_neg' = seq.profile_list
    /\ chg' = AssignPrefix(chg, i_pzc, Reverse(seq.chg))
    /\ seq' = SequentialInit(ForwardPart(potential, i_pzc), DefaultPh, 2)
    /\ pc' = "pos"
    /\ UNCHANGED <<fwd, evals, model, op, potential, p_h, i_pzc, phi, solves, sweep>>

\* The forward sub-sweep returns; chg[i_pzc:] = its charge; the capacitance
\* and the PotentialSweepSolution.
PotentialSweepReturn ==
    /\ pc = "pos"
    /\ op = "potential_sweep"
    /\ seq.i > Len(seq.potential)
    /\ stdout' = Append(stdout, PrintLine(seq))
    /\ ret' = PotentialReturn(seq)
    /\ chg' = AssignSuffix(chg, i_pzc, seq.chg)
    /\ sweep' = SweepSolution(potential, AssignSuffix(chg, i_pzc, seq.chg),
                              profiles_neg, seq.profile_list)
    /\ pc' = "done"
    /\ UNCHANGED <<fwd, evals, model, op, potential, p_h, i_pzc, phi, profiles_neg, seq, solves>>

\* ph_sweep(ph_range, tol) up to the first solve.
PhSweep(a) ==
    /\ pc = "idle"
    /\ model.kind = "ProtonLPB"
    /\ op' = "ph_sweep"
    /\ potential' = a
    /\ i_pzc' = PhPivot(a)
    /\ chg' = Zeros(Len(a))
    /\ phi' = Zeros(Len(a))
    /\ seq' = SequentialInit(ReversedPart(a, PhPivot(a)), DefaultPh, 1)
    /\ pc' = "neg"
    /\ UNCHANGED <<fwd, evals, model, p_h, profiles_neg, ret, solves, stdout, sweep>>

\* One iteration of the loop of insulator_sequential_solve.
InsulatorSolveStep ==
    /\ pc \in {"neg", "pos"}
    /\ op = "ph_sweep"
    /\ seq.i <= Len(seq.potential)
    /\ \E conv \in BOOLEAN :
        LET ph == seq.potential[seq.i]
            fun == OdeLambda(ph)
            bc == InsulatorBcLambda(ph)
            sol == SolveBvp(fun, bc, seq.x_axis, seq.y_initial, conv)
            prf == ComputeProfiles(model, sol, ph)
        IN  /\ solves' = Append(solves, SolveCall(seq, fun, bc, sol, prf))
            /\ seq' = InsulatorLoopBody(seq, sol, prf)
    /\ UNCHANGED <<fwd, evals, model, pc, op, potential, p_h, i_pzc, chg, phi, profiles_neg, ret,
                   stdout, sweep>>

\* The reversed sub-sweep returns; chg[:i_pzc+1] and phi[:i_pzc+1] are set;
\* the forward sub-sweep is entered.
PhSweepForward ==
    /\ pc = "neg"
    /\ op = "ph_sweep"
    /\ seq.i > Len(seq.potential)
    /\ stdout' = Append(stdout, PrintLine(seq))
    /\ ret' = InsulatorReturn(seq)
    /\ profiles_neg' = seq.profile_list
    /\ chg' = AssignPrefix(chg, i_pzc, Reverse(seq.chg))
    /\ phi' = AssignPrefix(phi, i_pzc, Reverse(seq.phi))
    /\ seq' = SequentialInit(ForwardPart(potential, i_pzc), DefaultPh, 2)
    /\ pc' = "pos"
    /\ UNCHANGED <<fwd, evals, model, op, potential, p_h, i_pzc, solves, sweep>>

\* The forward sub-sweep returns; chg[i_pzc:] and phi[i_pzc:] are set; the
\* capacitance over the surface potential and the PotentialSweepSolution.
PhSweepReturn ==
    /\ pc = "pos"
    /\ op = "ph_sweep"
    /\ seq.i > Len(seq.potential)
    /\ stdout' = Append(stdout, PrintLine(seq))
    /\ ret' = InsulatorReturn(seq)
    /\ chg' = AssignSuffix(chg, i_pzc, seq.chg)
    /\ phi' = AssignSuffix(phi, i_pzc, seq.phi)
    /\ sweep' = SweepSolution(AssignSuffix(phi, i_pzc, seq.phi),
                              AssignSuffix(chg, i_pzc, seq.chg),
                              profiles_neg, seq.profile_list)
    /\ pc' = "done"
    /\ UNCHANGED <<fwd, evals, model, op, potential, p_h, i_pzc, profiles_neg, seq, solves>>

\* GouyChapman(c) / Borukhov(c, a_m) / Abrashkin(c, ...) / ProtonLPB(c, ...):
\* no constructor validates its concentration, none raises.
Construct(kind, c) ==
    /\ pc = "new"
    /\ model' = NewModel(kind, c)
    /\ pc' = "idle"
    /\ UNCHANGED <<fwd, evals, op, potential, p_h, i_pzc, chg, phi, profiles_neg, seq, ret,
                   solves,
                   stdout, sweep>>

Next ==
    \/ \E a \in Arrays(PotentialValues), ph \in PhArgs : PotentialSweep(a, ph)
    \/ PotentialSolveStep
    \/ PotentialSweepForward
    \/ PotentialSweepReturn
    \/ \E a \in Arrays(PhValues) : PhSweep(a)
    \/ InsulatorSolveStep
    \/ PhSweepForward
    \/ PhSweepReturn

Spec == Init /\ [][Next]_vars

\* Before any model is constructed.
InitCtor ==
    /\ model = NoModel
    /\ pc = "new"
    /\ op = "none" /\ potential = <<>> /\ p_h = DefaultPh /\ i_pzc = 0
    /\ chg = <<>> /\ phi = <<>> /\ profiles_neg = <<>>
    /\ seq = NoFrame /\ ret = <<>> /\ solves = <<>> /\ stdout = <<>> /\ sweep = <<>>
    /\ fwd = NoFrame /\ evals = <<>>

NextCtor ==
    \/ \E k \in Kinds, c \in ConcChoices : Construct(k, c)
    \/ Next

SpecCtor == InitCtor /\ [][NextCtor]_vars

\* ------------------------------------------------- concurrent sub-sweeps
\* The two sequential solves of a sweep run side by side on the same model
\* instance, the reversed one on frame seq and the forward one on frame fwd,
\* their loop iterations interleaved in any order; the sweep splices the two
\* results once both have returned.

\* solve_bvp(..., x_axis, y_initial, ...): the mesh and guess a step hands over
SeedOfShared(fr) ==
    IF solves = <<>> THEN [x |-> DefaultMesh, y |-> ZeroGuess]
    ELSE [x |-> solves[Len(solves)].sol.x, y |-> solves[Len(solves)].sol.y]
SeedOf(fr) == [x |-> fr.x_axis, y |-> fr.y_initial]

\* One iteration of the loop of potential_sequential_solve (potential sweep)
\* or insulator_sequential_solve (pH sweep) on frame fr: the frame after it
\* and the record of its solve.
StepOfSharedList(fr, conv) ==
    LET ph == IF op = "ph_sweep" THEN fr.potential[fr.i] ELSE fr.p_h
        fun == OdeLambda(ph)
        bc == IF op = "ph_sweep" THEN InsulatorBcLambda(fr.potential[fr.i])
              ELSE DirichletLambda(fr.potential[fr.i])
        sol == SolveBvp(fun, bc, SeedOf(fr).x, SeedOf(fr).y, conv)
        prf == ComputeProfiles(model, sol, IF op = "ph_sweep" THEN ph ELSE DefaultPh)
        next == IF op = "ph_sweep" THEN InsulatorLoopBody(fr, sol, prf)
                ELSE PotentialLoopBody(fr, sol, prf)
    IN  [frame |-> [next EXCEPT !.profile_list =
                        [n \in 1..Len(solves) |-> solves[n].prf] \o <<prf>>],
         call |-> SolveCall(fr, fun, bc, sol, prf)]
StepOf(fr, conv) ==
    LET ph == IF op = "ph_sweep" THEN fr.potential[fr.i] ELSE fr.p_h
        fun == OdeLambda(ph)
        bc == IF op = "ph_sweep" THEN InsulatorBcLambda(fr.potential[fr.i])
              ELSE DirichletLambda(fr.potential[fr.i])
        sol == SolveBvp(fun, bc, SeedOf(fr).x, SeedOf(fr).y, conv)
        prf == ComputeProfiles(model, sol, IF op = "ph_sweep" THEN ph ELSE DefaultPh)
    IN  [frame |-> IF op = "ph_sweep" THEN InsulatorLoopBody(fr, sol, prf)
                   ELSE PotentialLoopBody(fr, sol, prf),
         call |-> SolveCall(fr, fun, bc, sol, prf)]

\* potential_sweep up to its two calls of potential_sequential_solve
ParPotentialSweep(a, ph) ==
    /\ pc = "idle"
    /\ op' = "potential_sweep"
    /\ potential' = a
    /\ p_h' = ph
    /\ i_pzc' = PotentialPivot(a)
    /\ chg' = Zeros(Len(a))
    /\ pc' = "par"
    /\ UNCHANGED <<model, phi, profiles_neg, seq, ret, solves, stdout, sweep, fwd, evals>>

\* ph_sweep up to its two calls of insulator_sequential_solve
ParPhSweep(a) ==
    /\ pc = "idle"
    /\ model.kind = "ProtonLPB"
    /\ op' = "ph_sweep"
    /\ potential' = a
    /\ i_pzc' = PhPivot(a)
    /\ chg' = Zeros(Len(a))
    /\ phi' = Zeros(Len(a))
    /\ pc' = "par"
    /\ UNCHANGED <<model, p_h, profiles_neg, seq, ret, solves, stdout, sweep, fwd, evals>>

\* The reversed sequential solve is entered: its locals before the loop.
ParEnterNeg ==
    /\ pc = "par"
    /\ seq.call = 0
    /\ seq' = SequentialInit(ReversedPart(potential, i_pzc),
                             IF op = "ph_sweep" THEN DefaultPh ELSE p_h, 1)
    /\ UNCHANGED <<model, pc, op, potential, p_h, i_pzc, chg, phi, profiles_neg, ret,
                   solves, stdout, sweep, fwd, evals>>

\* The forward sequential solve is entered: its locals before the loop.
ParEnterPos ==
    /\ pc = "par"
    /\ fwd.call = 0
    /\ fwd' = SequentialInit(ForwardPart(potential, i_pzc), DefaultPh, 2)
    /\ UNCHANGED <<model, pc, op, potential, p_h, i_pzc, chg, phi, profiles_neg, seq, ret,
                   solves, stdout, sweep, evals>>

\* One loop iteration of the reversed sequential solve.
ParStepNeg ==
    /\ pc = "par"
    /\ seq.call = 1
    /\ seq.i <= Len(seq.potential)
    /\ \E conv \in BOOLEAN :
        /\ seq' = StepOf(seq, conv).frame
        /\ solves' = Append(solves, StepOf(seq, conv).call)
    /\ UNCHANGED <<model, pc, op, potential, p_h, i_pzc, chg, phi, profiles_neg, ret,
                   stdout, sweep, fwd, evals>>

\* One loop iteration of the forward sequential solve.
ParStepPos ==
    /\ pc = "par"
    /\ fwd.call = 2
    /\ fwd.i <= Len(fwd.potential)
    /\ \E conv \in BOOLEAN :
        /\ fwd' = StepOf(fwd, conv).frame
        /\ solves' = Append(solves, StepOf(fwd, conv).call)
    /\ UNCHANGED <<model, pc, op, potential, p_h, i_pzc, chg, phi, profiles_neg, seq, ret,
                   stdout, sweep, evals>>

\* Both sequential solves have returned: the splices in the order of the
\* source, the capacitance and the PotentialSweepSolution.
ParJoin ==
    /\ pc = "par"
    /\ seq.call = 1 /\ seq.i > Len(seq.potential)
    /\ fwd.call = 2 /\ fwd.i > Len(fwd.potential)
    /\ stdout' = stdout \o <<PrintLine(seq), PrintLine(fwd)>>
    /\ profiles_neg' = seq.profile_list
    /\ chg' = AssignSuffix(AssignPrefix(chg, i_pzc, Reverse(seq.chg)), i_pzc, fwd.chg)
    /\ IF op = "ph_sweep"
       THEN /\ ret' = InsulatorReturn(fwd)
            /\ phi' = AssignSuffix(AssignPrefix(phi, i_pzc, Reverse(seq.phi)), i_pzc,
                                   fwd.phi)
            /\ sweep' = SweepSolution(
                   AssignSuffix(AssignPrefix(phi, i_pzc, Reverse(seq.phi)), i_pzc, fwd.phi),
                   AssignSuffix(AssignPrefix(chg, i_pzc, Reverse(seq.chg)), i_pzc, fwd.chg),
                   seq.profile_list, fwd.profile_list)
       ELSE /\ ret' = PotentialReturn(fwd)
            /\ UNCHANGED phi
            /\ sweep' = SweepSolution(
                   potential,
                   AssignSuffix(AssignPrefix(chg, i_pzc, Reverse(seq.chg)), i_pzc, fwd.chg),
                   seq.profile_list, fwd.profile_list)
    /\ pc' = "done"
    /\ UNCHANGED <<model, op, potential, p_h, i_pzc, seq, solves, fwd, evals>>

NextPar ==
    \/ \E a \in ParArrays(PotentialValues), ph \in PhArgs : ParPotentialSweep(a, ph)
    \/ \E a \in ParArrays(PhValues) : ParPhSweep(a)
    \/ ParEnterNeg
    \/ ParEnterPos
    \/ ParStepNeg
    \/ ParStepPos
    \/ ParJoin

SpecPar == Init /\ [][NextPar]_vars

\* ------------------------------------------------------- the pure methods
\* The methods of the models that compute a value from their arguments and
\* the attributes of the instance. Dimensionless potentials and fields are
\* small integers (levels); e^v is carried as the exact power 2^v times
\* ExpScale, so that every Boltzmann factor is an integer.
YMax == 1
Levels == (0 - YMax)..YMax
Nodes == Levels \X Levels
ExpScale == 2^(2 * YMax)
Exp2(v) == 2^(2 * YMax + v)
Sgn(v) == IF v < 0 THEN 0 - 1 ELSE IF v > 0 THEN 1 ELSE 0

\* The sign of a double: "neg", "zero", "pos"; "nonfinite" for nan and the
\* infinities; "any" where the sign depends on magnitudes that are not carried.
SOf(v) == IF v < 0 THEN "neg" ELSE IF v > 0 THEN "pos" ELSE "zero"
SMul(a, b) ==
    IF "any" \in {a, b} THEN "any"
    ELSE IF "nonfinite" \in {a, b} THEN "nonfinite"
    ELSE IF "zero" \in {a, b} THEN "zero"
    ELSE IF a = b THEN "pos" ELSE "neg"
SAdd(a, b) ==
    IF "any" \in {a, b} THEN "any"
    ELSE IF "nonfinite" \in {a, b} THEN "nonfinite"
    ELSE IF a = "zero" THEN b
    ELSE IF b = "zero" THEN a
    ELSE IF a = b THEN a ELSE "any"
SDiv(a, b) ==
    IF "any" \in {a, b} THEN "any"
    ELSE IF "nonfinite" \in {a, b} \/ b = "zero" THEN "nonfinite"
    ELSE SMul(a, b)

\* More arithmetic of concentrations: products with integers, powers of ten,
\* and the sign of a number whose digits have left -9..9.
NumZero == [k \in Exps |-> 0]
NumOne == Pow10(0)
NumScale(a, n) == [k \in Exps |-> a[k] * n]
NumShift(a, s) == [k \in Exps |-> IF k - s \in Exps THEN a[k - s] ELSE 0]
RECURSIVE SgnFrom(_, _, _)
SgnFrom(a, e, acc) ==
    IF e < 0 - PKW THEN Sgn(acc)
    ELSE LET v == acc * 10 + a[e]
         IN  IF v > 100000 THEN 1
             ELSE IF v < 0 - 100000 THEN 0 - 1
             ELSE SgnFrom(a, e - 1, v)
NumSgn(a) == SgnFrom(a, 0, 0)
RECURSIVE NumSum(_)
NumSum(q) == IF q = <<>> THEN NumZero ELSE NumAdd(q[1], NumSum(Tail(q)))

\* C.C_WATER_BULK, 55.5 mol/L
CWaterBulk == [k \in Exps |-> IF k = 0 THEN 55 ELSE IF k = 0 - 1 THEN 5 ELSE 0]

\* Size parameters of a constructor: for Borukhov a_m**3 * 1e3 * N_A in units
\* of 0.01 L/mol, for Abrashkin and ProtonLPB the gamma of every ion.
Sizes == {5, 60}
EvalConcs == {Conc(0 - 1, 0 - 3), Conc(0, 0), ValidConc, Conc(1, 0)}

\* The constructors with their size arguments.
NewSizedModel(kind, c, size) ==
    [kind |-> kind,
     c_0 |-> c,
     n_0 |-> NewModel(kind, c).n_0,
     kappa_debye |-> NewModel(kind, c).kappa_debye,
     name |-> kind,
     size |-> size]

\* Borukhov: self.chi_0 = 2 * a_m ** 3 * self.n_0
Chi0(m) == NumShift(NumScale(NumOfConc(m.c_0), 2 * m.size), 0 - 2)

\* Abrashkin: chi_s * C_WATER_BULK, from n_s_0 = n_max - gamma_c*n_0 - gamma_a*n_0
ChiS(m) == NumSub(CWaterBulk, NumScale(NumOfConc(m.c_0), 2 * m.size))

\* self.p_tilde = p_water * self.kappa_debye / (C.Z * C.E_0)
PTilde(m) ==
    IF m.kappa_debye = "positive" THEN "pos"
    ELSE IF m.kappa_debye = "zero" THEN "zero" ELSE "nonfinite"

\* self.p_tilde * y[1, :], as a level when it is finite
FieldArg(m, y1) == IF m.kappa_debye = "positive" THEN y1 ELSE 0

\* langevin.sinh_x_over_x, langevin_x, d_langevin_x and langevin_x_over_x:
\* sinh(x)/x is even, at least 1 and 1 at 0; the Langevin function is odd and
\* increasing, 0 at 0; its derivative and L(x)/x are positive.
SinhXOverX(w) == (1 + w * w) * ExpScale
LangevinX(w) == SOf(w)
DLangevinX(w) == "pos"
LangevinXOverX(w) == "pos"
\* The value of one of them at p_tilde * y[1, :]: nan where p_tilde is nan.
OfArg(p, s) == IF p = "nonfinite" THEN "nonfinite" ELSE s

\* create_x_mesh(xmax_nm, n_points) for xmax_nm = 10^xmax_exp. An element is
\* kappa_debye * 1e-9 * (10^(-6 + q/(n_points-1)) - 1e-6), carried as q: it
\* is 0 exactly if q = 0 and it increases with q. A kappa_debye of nan makes
\* every element nan, a kappa_debye of 0 makes every element 0.
MeshMinExp == -6
MeshExps == {-7, MeshMinExp, 0, 2}
MeshPoints == {1, 2, 3}
XMesh(m, xmax_exp, n_points) ==
    [k \in 1..n_points |->
        [nan |-> m.kappa_debye = "nan",
         q |-> IF m.kappa_debye = "zero" THEN 0
               ELSE (k - 1) * (xmax_exp - MeshMinExp)]]

\* ProtonLPB.bulk_densities, c_bulk[4]: the sum runs over the five entries
\* while the solvent entry is still 0.
BulkSolvent(m, ph) ==
    NumSub(CWaterBulk,
           NumSum([i \in 1..4 |-> NumScale(BulkDensities(m, ph)[i], m.size)]))

\* The species closures at one node y = <<potential, field>>: each density
\* as the fraction n/n_max = num/den; nf says the value is nan.
BorukhovDensities(m, y) ==
    LET den == NumAdd(NumScale(NumSub(NumOne, Chi0(m)), 2 * ExpScale),
                      NumScale(Chi0(m), Exp2(0 - y[1]) + Exp2(y[1])))
    IN  <<[nf |-> FALSE, num |-> NumScale(Chi0(m), Exp2(0 - y[1])), den |-> den],
          [nf |-> FALSE, num |-> NumScale(Chi0(m), Exp2(y[1])), den |-> den]>>
AbrashkinDensities(m, y) ==
    LET c == NumOfConc(m.c_0)
        bf_c == Exp2(0 - y[1])
        bf_a == Exp2(y[1])
        bf_s == SinhXOverX(FieldArg(m, y[2]))
        den == NumSum(<<NumScale(ChiS(m), bf_s), NumScale(c, m.size * bf_c),
                        NumScale(c, m.size * bf_a)>>)
        nf == PTilde(m) = "nonfinite"
    IN  <<[nf |-> nf, num |-> NumScale(c, bf_c), den |-> den],
          [nf |-> nf, num |-> NumScale(c, bf_a), den |-> den],
          [nf |-> nf, num |-> NumScale(ChiS(m), bf_s), den |-> den]>>
Gammas(m) == <<m.size, m.size, m.size, m.size, 1>>
ChargeOf == <<1, 0 - 1, 1, 0 - 1, 0>>
ProtonDensities(m, y, ph) ==
    LET c == BulkDensities(m, ph) \o <<BulkSolvent(m, ph)>>
        bfs == <<Exp2(0 - y[1]), Exp2(y[1]), Exp2(0 - y[1]), Exp2(y[1]),
                 SinhXOverX(FieldArg(m, y[2]))>>
        den == NumSum([i \in 1..5 |-> NumScale(c[i], Gammas(m)[i] * bfs[i])])
    IN  [i \in 1..5 |-> [nf |-> FALSE, num |-> NumScale(c[i], bfs[i]), den |-> den]]
Densities(m, y, ph) ==
    IF m.kind = "Borukhov" THEN BorukhovDensities(m, y)
    ELSE IF m.kind = "Abrashkin" THEN AbrashkinDensities(m, y)
    ELSE ProtonDensities(m, y, ph)

\* The sign of a density, and of a weighted sum of the densities of a node.
FracSign(nf, num, den) ==
    IF nf THEN "nonfinite" ELSE SDiv(SOf(NumSgn(num)), SOf(NumSgn(den)))
DensitySign(d) == FracSign(d.nf, d.num, d.den)
WeightedSign(ds, w) ==
    FracSign(ds[1].nf, NumSum([i \in 1..Len(ds) |-> NumScale(ds[i].num, w[i])]),
             ds[1].den)

\* ode_rhs at one node: dy1 is the field, dy2 a fraction num/den where it is
\* carried exactly (Gouy-Chapman, Borukhov) and a sign.
GouyChapmanRhs(y) ==
    [dy1 |-> y[2],
     dy2 |-> [num |-> Exp2(y[1]) - Exp2(0 - y[1]),
              den |-> NumScale(NumOne, 2 * ExpScale),
              sign |-> SOf(Exp2(y[1]) - Exp2(0 - y[1]))]]
BorukhovRhs(m, y) ==
    LET den == NumAdd(NumScale(NumSub(NumOne, Chi0(m)), 2 * ExpScale),
                      NumScale(Chi0(m), Exp2(0 - y[1]) + Exp2(y[1])))
    IN  [dy1 |-> y[2],
         dy2 |-> [num |-> Exp2(y[1]) - Exp2(0 - y[1]),
                  den |-> den,
                  sign |-> SDiv(SOf(Exp2(y[1]) - Exp2(0 - y[1])), SOf(NumSgn(den)))]]
\* The Langevin models: ds the densities of the node, q the charges and g the
\* gammas of the species, sol the index of the solvent, kappa2 the sign of
\* kappa_debye ** 2.
LangevinRhs(m, y, ds, q, g, sol, kappa2) ==
    LET w == FieldArg(m, y[2])
        p == PTilde(m)
        lang == OfArg(p, LangevinX(w))
        n_sol == DensitySign(ds[sol])
        numer1 == WeightedSign(ds, [i \in 1..Len(ds) |-> 0 - q[i]])
        numer2 == SMul(SMul(SMul(p, SOf(y[2])), lang),
                       SMul(WeightedSign(ds, [i \in 1..Len(ds) |-> (0 - q[i]) * g[i]]),
                            n_sol))
        denom1 == kappa2
        denom2 == SMul(SMul(p, p), SMul(n_sol, OfArg(p, DLangevinX(w))))
        denom3 == SMul(SMul(SMul(p, p), SMul(lang, lang)),
                       SMul(WeightedSign(ds, [i \in 1..Len(ds) |-> q[i] * q[i] * g[i]]),
                            n_sol))
    IN  [dy1 |-> y[2],
         dy2 |-> [num |-> <<>>, den |-> <<>>,
                  sign |-> SDiv(SAdd(numer1, numer2),
                                SAdd(denom1, SAdd(denom2, denom3)))]]
AbrashkinRhs(m, y) ==
    LangevinRhs(m, y, AbrashkinDensities(m, y), <<1, 0 - 1, 0>>,
                <<m.size, m.size, 1>>, 3, SMul(PTilde(m), PTilde(m)))
ProtonRhs(m, y, ph) ==
    LangevinRhs(m, y, ProtonDensities(m, y, ph), ChargeOf, Gammas(m), 5, "pos")
OdeRhs(m, y, ph) ==
    IF m.kind = "GouyChapman" THEN GouyChapmanRhs(y)
    ELSE IF m.kind = "Borukhov" THEN BorukhovRhs(m, y)
    ELSE IF m.kind = "Abrashkin" THEN AbrashkinRhs(m, y)
    ELSE ProtonRhs(m, y, ph)

\* The residual function dirichlet_lambda(phi0) returns, at the boundary
\* nodes ya and yb; potentials in units of 1/(BETA*Z*E_0).
DirichletResidual(phi0, ya, yb) == <<ya[1] - phi0, yb[1]>>

\* k_fraction(K_SILICA_A, K_SILICA_B, conc) for conc = 10^(-p_h) * e^(-ya[0]),
\* the pH given by its double tph: the numerator conc**2 - k_a*k_b, exact;
\* the denominator is a sum of positive terms.
KFraction(tph, ya0) ==
    NumSub(NumScale(Pow10(0 - tph), Exp2(0 - ya0) * Exp2(0 - ya0)),
           NumScale(Pow10(0 - TwicePhPzc), ExpScale * ExpScale))

\* permittivity(sol_y, n_sol): eps_r_opt plus a polarisation term with the sign
\* of the solvent density, taken non-negative here.
Permittivity(m, y) == SAdd("pos", OfArg(PTilde(m), LangevinXOverX(FieldArg(m, y[2]))))

\* insulator_bc(ya, yb, p_h): left = 2 * eps_r * ya[1] + (positive factor) *
\* k_fraction; right = yb[0].
InsulatorBc(m, tph, ya, yb) ==
    <<SAdd(SMul(Permittivity(m, ya), SOf(ya[2])), SOf(NumSgn(KFraction(tph, ya[1])))),
      yb[1]>>
TwicePhArgs == {TwicePhPzc - 1, TwicePhPzc, TwicePhPzc + 1}

\* analytical_sweep, the charge of one potential v (in units of
\* 2/(BETA*Z*E_0)): nf says the charge is nan, sign and mag are its sign and
\* its magnitude up to an increasing map.
GouyChapmanCharge(m, v) ==
    [nf |-> m.n_0 < 0,
     sign |-> IF m.n_0 = 0 THEN 0 ELSE Sgn(v),
     mag |-> IF m.n_0 = 0 THEN NumZero
             ELSE NumScale(NumOne, Abs(Exp2(v) - Exp2(0 - v)))]
\* sqrt(.. n_0 / chi_0) * sqrt(log(chi_0 * cosh(y_0) - chi_0 + 1)) * y_0 / abs(y_0)
BorukhovCharge(m, v) ==
    LET arg == NumScale(Chi0(m), Exp2(2 * v) + Exp2(0 - 2 * v) - 2 * ExpScale)
    IN  [nf |-> NumSgn(Chi0(m)) = 0 \/ NumSgn(arg) < 0 \/ v = 0,
         sign |-> Sgn(v),
         mag |-> arg]
AnalyticalSweep(m, a) ==
    [k \in 1..Len(a) |-> IF m.kind = "GouyChapman" THEN GouyChapmanCharge(m, a[k])
                         ELSE BorukhovCharge(m, a[k])]

\* One call of a pure method on the instance, from the call to its return:
\* evals holds the call.
Called(fn, args, result) ==
    /\ pc = "idle"
    /\ evals' = <<[fn |-> fn, args |-> args, result |-> result]>>
    /\ pc' = "returned"
    /\ UNCHANGED <<model, op, potential, p_h, i_pzc, chg, phi, profiles_neg, seq, ret,
                   solves, stdout, sweep, fwd>>

ConstructSized(kind, c, size) ==
    /\ pc = "new"
    /\ model' = NewSizedModel(kind, c, size)
    /\ pc' = "idle"
    /\ UNCHANGED <<op, potential, p_h, i_pzc, chg, phi, profiles_neg, seq, ret,
                   solves, stdout, sweep, fwd, evals>>

CallCreateXMesh(xmax_exp, n_points) ==
    Called("create_x_mesh", <<xmax_exp, n_points>>, XMesh(model, xmax_exp, n_points))

CallOdeRhs(y, ph) ==
    Called("ode_rhs", <<y, ph>>, [k \in 1..Len(y) |-> OdeRhs(model, y[k], ph)])

CallDirichlet(phi0, ya, yb) ==
    Called("dirichlet", <<phi0, ya, yb>>, DirichletResidual(phi0, ya, yb))

CallInsulatorBc(tph, ya, yb) ==
    /\ model.kind = "ProtonLPB"
    /\ Called("insulator_bc", <<tph, ya, yb>>, InsulatorBc(model, tph, ya, yb))

CallAnalyticalSweep(a) ==
    /\ model.kind \in {"GouyChapman", "Borukhov"}
    /\ Called("analytical_sweep", <<a>>, AnalyticalSweep(model, a))

CallDensities(y, ph) ==
    /\ model.kind # "GouyChapman"
    /\ Called("densities", <<y, ph>>, Densities(model, y, ph))

\* bulk_densities(p_h): the five entries, with the common factor 1e3 * N_A
\* of n_bulk left out.
CallBulkDensities(ph) ==
    /\ model.kind = "ProtonLPB"
    /\ Called("bulk_densities", <<ph>>,
              BulkDensities(model, ph) \o <<BulkSolvent(model, ph)>>)

NextEval ==
    \/ \E k \in Kinds, c \in EvalConcs, g \in Sizes : ConstructSized(k, c, g)
    \/ \E e \in MeshExps, n \in MeshPoints : CallCreateXMesh(e, n)
    \/ \E y \in [1..2 -> Nodes], ph \in PhValues : CallOdeRhs(y, ph)
    \/ \E phi0 \in Levels, ya \in Nodes, yb \in Nodes : CallDirichlet(phi0, ya, yb)
    \/ \E tph \in TwicePhArgs, ya \in Nodes, yb \in Nodes : CallInsulatorBc(tph, ya, yb)
    \/ \E a \in [1..2 -> Levels] : CallAnalyticalSweep(a)
    \/ \E y \in Nodes, ph \in PhValues : CallDensities(y, ph)
    \/ \E ph \in PhValues : CallBulkDensities(ph)

SpecEval == InitCtor /\ [][NextEval]_vars

\* -------------------------------------------------------- single profiles
\* spatial_profiles(phi0, tol, p_h) and insulator_spatial_profiles(p_h). The
\* target is counted in half steps of the continuation: phi0 in units of
\* 0.005 V, the pH target as p_h - ph_pzc in units of 0.005, so that targets
\* on the grid of the steps (even) and off it (odd) both occur.
MaxTarget == 4
Targets == (0 - MaxTarget)..MaxTarget
ArangeStep == 2

\* np.arange(0, phi0, sign*0.01), as offsets from its start: the length is
\* ceil(phi0 / (sign*0.01)) computed in floating point; for a target on the
\* grid the quotient may round above the integer, and the array then has one
\* element more, the target itself.
Arange(t, rounded_up) ==
    [k \in 1..((Abs(t) + ArangeStep - 1) \div ArangeStep + (IF rounded_up THEN 1 ELSE 0))
        |-> Sgn(t) * (k - 1) * ArangeStep]

\* The call up to the loop of the sequential solve. sign = phi0/abs(phi0)
\* divides by zero for a target of 0: the call raises (ZeroDivisionError, or
\* for a numpy zero the nan step makes np.arange raise).
EnterProfiles(fn, t, ph) ==
    /\ pc = "idle"
    /\ op' = fn
    /\ evals' = <<[fn |-> fn, args |-> <<t, ph>>, result |-> <<>>]>>
    /\ p_h' = ph
    /\ IF t = 0
       THEN /\ pc' = "raised"
            /\ UNCHANGED <<potential, seq>>
       ELSE /\ \E rounded_up \in BOOLEAN :
                /\ rounded_up => t % ArangeStep = 0
                /\ potential' = Arange(t, rounded_up)
                /\ seq' = SequentialInit(Arange(t, rounded_up), ph, 1)
            /\ pc' = "spatial"
    /\ UNCHANGED <<model, i_pzc, chg, phi, profiles_neg, ret, solves, stdout, sweep, fwd>>

SpatialProfiles(phi0, ph) == EnterProfiles("spatial_profiles", phi0, ph)

InsulatorSpatialProfiles(dph) ==
    /\ model.kind = "ProtonLPB"
    /\ EnterProfiles("insulator_spatial_profiles", dph, DefaultPh)

\* One iteration of the loop of the sequential solve the call runs.
ProfilesSolveStep ==
    /\ pc = "spatial"
    /\ seq.i <= Len(seq.potential)
    /\ \E conv \in BOOLEAN :
        LET insulator == op = "insulator_spatial_profiles"
            v == seq.potential[seq.i]
            ph == IF insulator THEN v ELSE seq.p_h
            fun == OdeLambda(ph)
            bc == IF insulator THEN InsulatorBcLambda(v) ELSE DirichletLambda(v)
            sol == SolveBvp(fun, bc, seq.x_axis, seq.y_initial, conv)
            prf == ComputeProfiles(model, sol, IF insulator THEN ph ELSE DefaultPh)
        IN  /\ solves' = Append(solves, SolveCall(seq, fun, bc, sol, prf))
            /\ seq' = IF insulator THEN InsulatorLoopBody(seq, sol, prf)
                      ELSE PotentialLoopBody(seq, sol, prf)
    /\ UNCHANGED <<model, pc, op, potential, p_h, i_pzc, chg, phi, profiles_neg, ret,
                   stdout, sweep, fwd, evals>>

\* return profiles[-1]
LastProfile(fr) == fr.profile_list[Len(fr.profile_list)]

\* The sequential solve returns and the call returns profiles[-1].
ProfilesReturn ==
    /\ pc = "spatial"
    /\ seq.i > Len(seq.potential)
    /\ stdout' = Append(stdout, PrintLine(seq))
    /\ ret' = IF op = "insulator_spatial_profiles" THEN InsulatorReturn(seq)
              ELSE PotentialReturn(seq)
    /\ evals' = <<[evals[1] EXCEPT !.result = <<LastProfile(seq)>>]>>
    /\ pc' = "done"
    /\ UNCHANGED <<model, op, potential, p_h, i_pzc, chg, phi, profiles_neg, seq,
                   solves, sweep, fwd>>

NextProfiles ==
    \/ \E t \in Targets, ph \in PhArgs : SpatialProfiles(t, ph)
    \/ \E t \in Targets : InsulatorSpatialProfiles(t)
    \/ ProfilesSolveStep
    \/ ProfilesReturn

SpecProfiles == Init /\ [][NextProfiles]_vars

\* ------------------------------------------------------------ worker pool
\* S.get_x_axis_nm(100, 10000): the axis every task solves on
GetXAxisNm == <<"x_axis_nm", 100, 10000>>

\* model.solve_dirichlet(x_axis_nm, phi0, force_recalculation): the solution
\* is a function of the model, the axis and the boundary value.
SolveDirichlet(m, x, phi0) == [model |-> m, x |-> x, phi0 |-> phi0]

\* compute_charge(model, phi0): sol.efield[0] * C.EPS_0 * sol.eps[0]
ComputeCharge(m, phi0) == <<"charge", SolveDirichlet(m, GetXAxisNm, phi0)>>

\* numerical(model, potential) up to the dispatch of the tasks: one task
\* (model, phi, force_recalculation) for each phi of potential.
Numerical(a) ==
    /\ pc = "idle"
    /\ op' = "numerical"
    /\ potential' = a
    /\ pc' = "pool"
    /\ UNCHANGED <<model, p_h, i_pzc, chg, phi, profiles_neg, seq, ret, solves,
                   stdout, sweep, fwd, evals>>

\* A worker takes the task of input index k, which no worker has taken yet;
\* its arguments are the worker's own copies.
PoolStart(k) ==
    /\ pc = "pool"
    /\ k \in 1..Len(potential)
    /\ \A n \in 1..Len(solves) : solves[n].task # k
    /\ solves' = Append(solves, [task |-> k, args |-> <<model, potential[k]>>,
                                 finished |-> 0, result |-> <<>>])
    /\ UNCHANGED <<model, pc, op, potential, p_h, i_pzc, chg, phi, profiles_neg,
                   seq, ret, stdout, sweep, fwd, evals>>

\* A worker finishes the task it took as the n-th: finished is the rank of
\* its completion among the tasks of the pool.
PoolFinish(n) ==
    /\ pc = "pool"
    /\ n \in 1..Len(solves)
    /\ solves[n].finished = 0
    /\ solves' = [solves EXCEPT ![n] =
           [task |-> solves[n].task,
            args |-> solves[n].args,
            finished |-> 1 + Cardinality({j \in 1..Len(solves) :
                                          solves[j].finished > 0}),
            result |-> <<ComputeCharge(solves[n].args[1], solves[n].args[2])>>]]
    /\ UNCHANGED <<model, pc, op, potential, p_h, i_pzc, chg, phi, profiles_neg,
                   seq, ret, stdout, sweep, fwd, evals>>

\* pool.starmap(compute_charge, tasks): the results in the order of the tasks
StarmapByCompletion(log) ==
    [k \in 1..Len(log) |->
        (CHOOSE e \in {log[n] : n \in 1..Len(log)} : e.finished = k).result[1]]
Starmap(log) ==
    [k \in 1..Len(log) |->
        (CHOOSE e \in {log[n] : n \in 1..Len(log)} : e.task = k).result[1]]

\* PotentialSweepSolution(phi=potential, charge=chg, cap=cap, name=model.name)
NumericalSolution(abscissa, c) ==
    [phi |-> abscissa,
     charge |-> c,
     cap |-> Capacitance(c, abscissa),
     name |-> model.name]

\* starmap returns once every task has finished; the capacitance and the
\* returned solution follow.
NumericalReturn ==
    /\ pc = "pool"
    /\ Len(solves) = Len(potential)
    /\ \A n \in 1..Len(solves) : solves[n].finished > 0
    /\ chg' = Starmap(solves)
    /\ sweep' = NumericalSolution(potential, Starmap(solves))
    /\ pc' = "done"
    /\ UNCHANGED <<model, op, potential, p_h, i_pzc, phi, profiles_neg, seq, ret,
                   solves, stdout, fwd, evals>>

NextPool ==
    \/ \E a \in ParArrays(PotentialValues) : Numerical(a)
    \/ \E k \in 1..ParLen : PoolStart(k)
    \/ \E n \in 1..ParLen : PoolFinish(n)
    \/ NumericalReturn

SpecPool == Init /\ [][NextPool]_vars

\* ------------------------------------------------------------- claims
\* Length of the input control array, and the solve of the log that produced
\* the entry of input index i: the reversed sub-sweep is solves 1..i_pzc, the
\* forward one the solves after it.
M == Len(potential)
SolveOfIndex(i) == IF i < i_pzc THEN solves[i_pzc - i + 1] ELSE solves[i + 1]

\* C1: the returned PotentialSweepSolution has charge, cap and profiles of
\* the input's length m.
C1_SweepLengths ==
    pc = "done" =>
        /\ Len(sweep.charge) = M
        /\ Len(sweep.cap) = M
        /\ Len(sweep.profiles) = M

\* C2: for every input index i, profiles[i] is the profile of the solve whose
\* boundary parameter was input[i], and charge[i] is the charge of that solve.
C2_ProfileMatchesInput ==
    pc = "done" =>
        \A i \in 1..M :
            /\ i <= Len(sweep.profiles)
            /\ sweep.profiles[i].bc.val = potential[i]
            /\ sweep.charge[i] = Charge(sweep.profiles[i])

\* C3: the first solve of a sequential solve starts from the default mesh and
\* the all-zero guess; every later solve k starts from exactly the mesh and
\* state returned by solve k-1 of the same call.
C3_ContinuationSeeds ==
    \A n \in 1..Len(solves) :
        IF solves[n].k = 1
        THEN /\ solves[n].x0 = DefaultMesh
             /\ solves[n].y0 = ZeroGuess
        ELSE /\ n > 1
             /\ solves[n - 1].call = solves[n].call
             /\ solves[n - 1].k = solves[n].k - 1
             /\ solves[n].x0 = solves[n - 1].sol.x
             /\ solves[n].y0 = solves[n - 1].sol.y

\* A sweep that took a second and a third step in both directions.
C3_Witness ==
    /\ pc = "done"
    /\ \E n \in 1..Len(solves) : solves[n].call = 1 /\ solves[n].k = 2
    /\ \E n \in 1..Len(solves) : solves[n].call = 2 /\ solves[n].k = 2

\* C4: the pivot is the index of the element closest to zero (potential_sweep)
\* or to pH_pzc (ph_sweep), the lowest such index on a tie.
Distance(v) == IF op = "ph_sweep" THEN Abs(2 * v - TwicePhPzc) ELSE Abs(v)
C4_Pivot ==
    pc \in {"neg", "pos", "done"} =>
        /\ i_pzc \in 1..M
        /\ \A j \in 1..M : Distance(potential[i_pzc]) <= Distance(potential[j])
        /\ \A j \in 1..M :
            Distance(potential[j]) = Distance(potential[i_pzc]) => i_pzc <= j
        /\ solves # <<>> => solves[1].bc.val = potential[i_pzc]

\* A potential sweep whose pivot ties with a later element of opposite sign.
C4_Witness ==
    /\ pc = "done"
    /\ op = "potential_sweep"
    /\ \E j \in (i_pzc + 1)..M :
        potential[j] # 0 /\ potential[j] = 0 - potential[i_pzc]

\* C5: a sweep runs two continuation calls, over input[p], input[p-1], ...,
\* input[0] and over input[p], ..., input[m-1], in that order: the pivot is
\* solved twice, every other index once, m+1 solves in all.
C5_TwoCalls ==
    /\ Len(solves) <= M + 1
    /\ \A n \in 1..Len(solves) :
        IF n <= i_pzc
        THEN /\ solves[n].call = 1
             /\ solves[n].k = n
             /\ solves[n].bc.val = potential[i_pzc - n + 1]
        ELSE /\ solves[n].call = 2
             /\ solves[n].k = n - i_pzc
             /\ solves[n].bc.val = potential[n - 1]
    /\ pc = "done" => Len(solves) = M + 1
    /\ pc = "pos" => Len(solves) >= i_pzc

\* A finished sweep with elements on both sides of the pivot.
C5_Witness ==
    /\ pc = "done"
    /\ 1 < i_pzc
    /\ i_pzc < M
    /\ Len(solves) = M + 1

\* C6: in the spliced charge array the pivot entry is the charge of the
\* forward sub-sweep, the entries below the pivot are the reversed
\* sub-sweep's and the entries above it the forward sub-sweep's.
C6_PivotFromForward ==
    pc = "done" =>
        /\ Len(sweep.charge) = M
        /\ \A i \in 1..M : sweep.charge[i] = Charge(SolveOfIndex(i).prf)
        /\ \A i \in 1..M : SolveOfIndex(i).call = (IF i < i_pzc THEN 1 ELSE 2)

\* A finished sweep whose two pivot solves gave different profiles.
C6_Witness ==
    /\ pc = "done"
    /\ 1 < i_pzc
    /\ i_pzc < M
    /\ solves[i_pzc].prf # solves[i_pzc + 1].prf

\* C7: whatever the pattern of converged and failed solves, a sequential
\* solve attempts one solve per parameter value in order, records one charge
\* and one profile per value, seeds the next step with what the failed solve
\* returned, and returns without raising.
StepsOfCall == SelectSeq(solves, LAMBDA s : s.call = seq.call)
C7_FailureDoesNotAbort ==
    /\ pc # "raised"
    /\ pc \in {"neg", "pos"} =>
        ENABLED (PotentialSolveStep \/ PotentialSweepForward \/ PotentialSweepReturn
                 \/ InsulatorSolveStep \/ PhSweepForward \/ PhSweepReturn)
    /\ pc \in {"neg", "pos", "done"} =>
        /\ Len(StepsOfCall) = seq.i - 1
        /\ Len(seq.profile_list) = seq.i - 1
        /\ \A k \in 1..(seq.i - 1) :
            /\ StepsOfCall[k].bc.val = seq.potential[k]
            /\ seq.profile_list[k] = StepsOfCall[k].prf
            /\ seq.chg[k] = Charge(StepsOfCall[k].prf)
            /\ seq.max_res[k] = StepsOfCall[k].sol.res
        /\ \A k \in 2..(seq.i - 1) :
            StepsOfCall[k].x0 = StepsOfCall[k - 1].sol.x
        /\ seq.x_axis = (IF seq.i = 1 THEN DefaultMesh ELSE StepsOfCall[seq.i - 1].sol.x)
    /\ pc = "done" => seq.i = Len(seq.potential) + 1

\* A finished sweep in which a solve failed and a later solve of the same
\* call was seeded by it.
C7_Witness ==
    /\ pc = "done"
    /\ \E n \in 1..(Len(solves) - 1) :
        /\ solves[n].sol.res = 1
        /\ solves[n + 1].call = solves[n].call
        /\ solves[n + 1].x0 = solves[n].sol.x

\* C8 as claimed: the sequential solve returns the maximum residual over all
\* steps together with the charge array and the profile list.
C8_ReturnsMaxResidual ==
    pc \in {"pos", "done"} => "max_res" \in DOMAIN ret

\* C8 as amended: the sequential solve returns the charge array (with the
\* surface potential, for the insulator solve) and the profile list only;
\* the maximum residual over all steps of the call is printed, and neither
\* the return value nor the PotentialSweepSolution carries it.
ResidualsOfCall(c) ==
    {solves[n].sol.res : n \in {j \in 1..Len(solves) : solves[j].call = c}}
C8_ResidualPrintedNotReturned ==
    /\ pc \in {"pos", "done"} =>
        /\ DOMAIN ret = (IF op = "ph_sweep" THEN {"chg", "phi", "profile_list"}
                         ELSE {"chg", "profile_list"})
        /\ Len(stdout) >= 1
        /\ stdout[1].max_res \in ResidualsOfCall(1)
        /\ \A r \in ResidualsOfCall(1) : r <= stdout[1].max_res
    /\ pc = "done" =>
        /\ Len(stdout) = 2
        /\ stdout[2].max_res \in ResidualsOfCall(2)
        /\ \A r \in ResidualsOfCall(2) : r <= stdout[2].max_res
        /\ DOMAIN sweep = {"phi", "charge", "cap", "profiles", "name"}

\* A finished sweep whose forward sub-sweep had a failed solve followed by a
\* converged last solve: the printed maximum is not the last residual.
C8_Witness ==
    /\ pc = "done"
    /\ stdout[2].max_res = 1
    /\ solves[Len(solves)].sol.res = 0

\* C9: constructing a model with a non-positive bulk concentration ends in a
\* domain error, and no solve is ever attempted on such an instance.
C9_InvalidConcentrationFailsFast ==
    (pc # "new" /\ model.c_0.sign <= 0) => (pc = "raised" /\ solves = <<>>)

\* C10: bulk_densities fails when the pH makes a bulk concentration negative,
\* so a pH sweep never starts a solve with a negative bulk concentration.
BulkNonNegative(m, ph) ==
    \A e \in 1..Len(BulkDensities(m, ph)) : NumSign(BulkDensities(m, ph)[e]) >= 0
C10_NoSolveWithNegativeBulk ==
    op = "ph_sweep" =>
        \A n \in 1..Len(solves) : BulkNonNegative(model, solves[n].rhs)

\* C12: after its constructor returns, no operation changes any attribute of
\* the model instance.
C12_ModelReadOnly == [][pc # "new" => model' = model]_vars

\* A ProtonLPB instance after a whole pH sweep.
C12_Witness ==
    /\ pc = "done"
    /\ op = "ph_sweep"
    /\ model = NewModel("ProtonLPB", ValidConc)

\* C14 as claimed: the phi field of the returned PotentialSweepSolution is the
\* input control array, element for element (a pH value c is <<"ph", c>>).
IsInput(v, c) == IF op = "ph_sweep" THEN v = <<"ph", c>> ELSE v = c
C14_PhiIsInput ==
    pc = "done" =>
        /\ Len(sweep.phi) = M
        /\ \A i \in 1..M : IsInput(sweep.phi[i], potential[i])

\* C14 as amended: potential_sweep stores the input potentials in phi;
\* ph_sweep stores the surface potential prf.phi[0] of the solve of each pH,
\* spliced like the charge, and does not store the pH values.
C14_PhiField ==
    pc = "done" =>
        /\ Len(sweep.phi) = M
        /\ op = "potential_sweep" => sweep.phi = potential
        /\ op = "ph_sweep" =>
            \A i \in 1..M : sweep.phi[i] = SurfacePhi(SolveOfIndex(i).prf)

\* A finished pH sweep with values on both sides of the pivot.
C14_Witness ==
    /\ pc = "done"
    /\ op = "ph_sweep"
    /\ 1 < i_pzc
    /\ i_pzc < M

\* C19: for a sorted input, each sub-sequence handed to the sequential solve
\* starts at the pivot value and never comes closer to it again, and every
\* solve after the first of a sub-sweep is seeded with the solution of the
\* input index next to it on the pivot side.
Sorted(a) ==
    \/ \A k \in 1..(Len(a) - 1) : a[k] <= a[k + 1]
    \/ \A k \in 1..(Len(a) - 1) : a[k] >= a[k + 1]
IndexOfSolve(n) == IF n <= i_pzc THEN i_pzc - n + 1 ELSE n - 1
FromPivot(v) == Abs(v - potential[i_pzc])
C19_MonotoneAway ==
    Sorted(potential) =>
        \A n \in 1..Len(solves) :
            /\ solves[n].bc.val = potential[IndexOfSolve(n)]
            /\ solves[n].k = 1 => solves[n].bc.val = potential[i_pzc]
            /\ solves[n].k > 1 =>
                /\ FromPivot(solves[n].bc.val) >= FromPivot(solves[n - 1].bc.val)
                /\ solves[n].x0 = solves[n - 1].sol.x
                /\ solves[n].y0 = solves[n - 1].sol.y
                /\ IndexOfSolve(n - 1) =
                     (IF IndexOfSolve(n) < i_pzc THEN IndexOfSolve(n) + 1
                      ELSE IndexOfSolve(n) - 1)

\* A finished potential sweep over a strictly increasing input with the pivot
\* inside.
C19_Witness ==
    /\ pc = "done"
    /\ op = "potential_sweep"
    /\ \A k \in 1..(M - 1) : potential[k] < potential[k + 1]
    /\ 1 < i_pzc
    /\ i_pzc < M

\* C20: potential_sweep(potential, tol, p_h) builds the RHS closure of every
\* solve, in both sub-sweeps, with the caller's p_h.
C20_CallerPhEverySolve ==
    op = "potential_sweep" =>
        \A n \in 1..Len(solves) : solves[n].rhs = p_h

\* A sequential solve run on its own: the frame it starts from and the fold
\* of its loop over the solver outcomes convs, one per iteration.
FreshFrame(pot, ph, call) ==
    [potential |-> pot, p_h |-> ph, call |-> call, i |-> 1,
     chg |-> Zeros(Len(pot)), phi |-> Zeros(Len(pot)),
     max_res |-> [k \in 1..Len(pot) |-> 0],
     profile_list |-> <<>>, x_axis |-> DefaultMesh, y_initial |-> ZeroGuess]
StepAlone(fr, conv) ==
    LET ph == IF op = "ph_sweep" THEN fr.potential[fr.i] ELSE fr.p_h
        bc == IF op = "ph_sweep" THEN InsulatorBcLambda(fr.potential[fr.i])
              ELSE DirichletLambda(fr.potential[fr.i])
        sol == SolveBvp(OdeLambda(ph), bc, fr.x_axis, fr.y_initial, conv)
        prf == ComputeProfiles(model, sol, IF op = "ph_sweep" THEN ph ELSE DefaultPh)
    IN  IF op = "ph_sweep" THEN InsulatorLoopBody(fr, sol, prf)
        ELSE PotentialLoopBody(fr, sol, prf)
RECURSIVE RunAlone(_, _)
RunAlone(fr, convs) ==
    IF fr.i > Len(fr.potential) \/ fr.i > Len(convs) THEN fr
    ELSE RunAlone(StepAlone(fr, convs[fr.i]), convs)
StepsOf(call) == SelectSeq(solves, LAMBDA s : s.call = call)
ConvsOf(call) == [n \in 1..Len(StepsOf(call)) |-> StepsOf(call)[n].sol.res = 0]
NegAlone ==
    RunAlone(FreshFrame(ReversedPart(potential, i_pzc),
                        IF op = "ph_sweep" THEN DefaultPh ELSE p_h, 1), ConvsOf(1))
PosAlone == RunAlone(FreshFrame(ForwardPart(potential, i_pzc), DefaultPh, 2), ConvsOf(2))
Interleaved ==
    \E n \in 1..(Len(solves) - 2) :
        /\ solves[n].call = 2 /\ solves[n + 1].call = 1 /\ solves[n + 2].call = 2

\* C11: the two sub-sweeps of a sweep are independent: run in any order or
\* interleaved, the sweep returns the charges and profiles that each
\* sub-sweep, run on its own from the default mesh and the zero guess with
\* the same solver outcomes, produces, spliced at the pivot.
C11_SubSweepsIndependent ==
    pc = "done" =>
        /\ sweep.charge = AssignSuffix(AssignPrefix(Zeros(M), i_pzc, Reverse(NegAlone.chg)),
                                       i_pzc, PosAlone.chg)
        /\ sweep.profiles = Reverse(NegAlone.profile_list) \o PosAlone.profile_list
        /\ op = "ph_sweep" =>
               sweep.phi = AssignSuffix(AssignPrefix(Zeros(M), i_pzc, Reverse(NegAlone.phi)),
                                        i_pzc, PosAlone.phi)
C11_Witness ==
    /\ pc = "done" /\ op = "potential_sweep" /\ Interleaved
    /\ \E n \in 1..Len(solves) : solves[n].sol.res # 0

\* C13: two sequential solves running at the same time on one model instance
\* do not interfere: at every moment the continuation state and results of
\* each are those of that solve run on its own for the same number of
\* iterations, whatever the other has done meanwhile, and the instance is not
\* touched.
C13_ConcurrentSolvesIsolated ==
    pc \in {"par", "done"} =>
        /\ seq.call = 1 => seq = NegAlone
        /\ fwd.call = 2 => fwd = PosAlone
        /\ model = NewModel(model.kind, model.c_0)
C13_Witness ==
    /\ pc = "par" /\ op = "ph_sweep" /\ Interleaved
    /\ seq.i <= Len(seq.potential) /\ seq.x_axis # fwd.x_axis

\* The call evals holds, if any.
CallsOf(fn) == {n \in 1..Len(evals) : evals[n].fn = fn}
ZeroNode == <<0, 0>>
ValidModel == model.c_0.sign > 0

\* An instance whose bulk is physical at pH ph: every bulk concentration
\* non-negative, the supporting concentration positive and the bulk volume
\* fractions within 1.
PhysicalBulk(ph) ==
    /\ ValidModel
    /\ model.kind = "Borukhov" => NumSgn(NumSub(NumOne, Chi0(model))) >= 0
    /\ model.kind = "Abrashkin" => NumSgn(ChiS(model)) >= 0
    /\ model.kind = "ProtonLPB" =>
           /\ \A i \in 1..4 : NumSgn(BulkDensities(model, ph)[i]) >= 0
           /\ NumSgn(BulkSolvent(model, ph)) >= 0

\* C15: create_x_mesh is deterministic and free of side effects (the call
\* repeated on the instance as it is after the call returns the same array),
\* the array it returns is strictly increasing and its first element is
\* exactly 0.
C15_MeshIncreasingFromZero ==
    \A n \in CallsOf("create_x_mesh") :
        LET x == evals[n].result
        IN  /\ x = XMesh(model, evals[n].args[1], evals[n].args[2])
            /\ ~x[1].nan /\ x[1].q = 0
            /\ \A k \in 1..(Len(x) - 1) :
                   ~x[k].nan /\ ~x[k + 1].nan /\ x[k].q < x[k + 1].q
\* What holds: the same for a model with a positive concentration and a
\* cutoff above 1e-6 nm.
MeshWellFormedOnValidInput ==
    \A n \in CallsOf("create_x_mesh") :
        (ValidModel /\ evals[n].args[1] > MeshMinExp) =>
            LET x == evals[n].result
            IN  /\ x = XMesh(model, evals[n].args[1], evals[n].args[2])
                /\ ~x[1].nan /\ x[1].q = 0
                /\ \A k \in 1..(Len(x) - 1) :
                       ~x[k].nan /\ ~x[k + 1].nan /\ x[k].q < x[k + 1].q

\* C16: the all-zero state solves the problem at the point of zero charge:
\* for every model the right-hand side at potential 0 and field 0 is 0 in
\* both components, the Dirichlet residual for phi0 = 0 vanishes on the zero
\* state, and for ProtonLPB the insulator residual vanishes on the zero state
\* at pH_pzc.
ZeroStateSolves ==
    /\ \A n \in CallsOf("ode_rhs") :
           \A k \in 1..Len(evals[n].result) :
               evals[n].args[1][k] = ZeroNode =>
                   /\ evals[n].result[k].dy1 = 0
                   /\ evals[n].result[k].dy2.sign = "zero"
    /\ \A n \in CallsOf("dirichlet") :
           (evals[n].args[1] = 0 /\ evals[n].args[2] = ZeroNode
                /\ evals[n].args[3] = ZeroNode) => evals[n].result = <<0, 0>>
    /\ \A n \in CallsOf("insulator_bc") :
           (evals[n].args[1] = TwicePhPzc /\ evals[n].args[2] = ZeroNode
                /\ evals[n].args[3] = ZeroNode) => evals[n].result = <<"zero", 0>>
C16_ZeroStateSolves == pc = "returned" => ZeroStateSolves
\* What holds: the two boundary residuals for every model, and the right-hand
\* side for the instances whose bulk is physical.
ZeroStateSolvesPhysical ==
    /\ \A n \in CallsOf("ode_rhs") :
           PhysicalBulk(evals[n].args[2]) =>
               \A k \in 1..Len(evals[n].result) :
                   evals[n].args[1][k] = ZeroNode =>
                       /\ evals[n].result[k].dy1 = 0
                       /\ evals[n].result[k].dy2.sign = "zero"
    /\ \A n \in CallsOf("dirichlet") :
           (evals[n].args[1] = 0 /\ evals[n].args[2] = ZeroNode
                /\ evals[n].args[3] = ZeroNode) => evals[n].result = <<0, 0>>
    /\ \A n \in CallsOf("insulator_bc") :
           (evals[n].args[1] = TwicePhPzc /\ evals[n].args[2] = ZeroNode
                /\ evals[n].args[3] = ZeroNode) => evals[n].result = <<"zero", 0>>

\* C17: for the Gouy-Chapman and Borukhov models analytical_sweep gives
\* charge(-V) = -charge(V) for every V, V = 0 included (so charge(0) = 0), and
\* the right-hand side is odd in the state.
Antisymmetric(c, d) == ~c.nf /\ ~d.nf /\ c.sign = 0 - d.sign /\ c.mag = d.mag
RhsOdd ==
    \A n \in CallsOf("ode_rhs") :
        model.kind \in {"GouyChapman", "Borukhov"} =>
            \A i, j \in 1..Len(evals[n].result) :
                (/\ evals[n].args[1][i][1] = 0 - evals[n].args[1][j][1]
                 /\ evals[n].args[1][i][2] = 0 - evals[n].args[1][j][2]) =>
                    /\ evals[n].result[i].dy1 = 0 - evals[n].result[j].dy1
                    /\ evals[n].result[i].dy2.num = 0 - evals[n].result[j].dy2.num
                    /\ evals[n].result[i].dy2.den = evals[n].result[j].dy2.den
ChargeOdd ==
    \A n \in CallsOf("analytical_sweep") :
        \A i, j \in 1..Len(evals[n].result) :
            evals[n].args[1][i] = 0 - evals[n].args[1][j] =>
                Antisymmetric(evals[n].result[i], evals[n].result[j])
C17_ChargeAntisymmetric == RhsOdd /\ ChargeOdd
\* What holds: the charge is antisymmetric away from V = 0 for the models with
\* a positive concentration, for Gouy-Chapman at V = 0 too.
ChargeOddAwayFromZero ==
    \A n \in CallsOf("analytical_sweep") :
        ValidModel =>
            \A i, j \in 1..Len(evals[n].result) :
                (/\ evals[n].args[1][i] = 0 - evals[n].args[1][j]
                 /\ (model.kind = "Borukhov" => evals[n].args[1][i] # 0)) =>
                    Antisymmetric(evals[n].result[i], evals[n].result[j])

\* C18: for the Borukhov, Abrashkin and ProtonLPB models, for every
\* constructible model and every state, each species density is non-negative
\* and the volume fractions sum to at most 1.
Weights ==
    IF model.kind = "Borukhov" THEN <<1, 1>>
    ELSE IF model.kind = "Abrashkin" THEN <<model.size, model.size, 1>>
    ELSE Gammas(model)
Occupied(ds) == NumSum([i \in 1..Len(ds) |-> NumScale(ds[i].num, Weights[i])])
WithinPacking(ds) ==
    /\ \A i \in 1..Len(ds) : DensitySign(ds[i]) \in {"zero", "pos"}
    /\ NumSgn(ds[1].den) # 0
    /\ NumSgn(ds[1].den) * NumSgn(NumSub(ds[1].den, Occupied(ds))) >= 0
C18_DensitiesWithinPacking ==
    \A n \in CallsOf("densities") : WithinPacking(evals[n].result)
\* What holds: the same for the instances whose bulk is physical: every bulk
\* concentration positive and the bulk volume fractions within 1.
DensitiesWithinPackingPhysical ==
    \A n \in CallsOf("densities") :
        PhysicalBulk(evals[n].args[2]) => WithinPacking(evals[n].result)

\* C21: in every continuation step the profile is reconstructed with the pH
\* that parameterised the RHS closure of that step's solve; for a ProtonLPB
\* model both in insulator_sequential_solve and in potential_sequential_solve
\* called with any p_h.
C21_ProfilePhIsSolvePh ==
    model.kind = "ProtonLPB" =>
        \A n \in 1..Len(solves) : solves[n].prf.ph = <<solves[n].rhs>>
\* What holds: the same in the steps of insulator_sequential_solve.
ProfilePhIsSolvePhInsulator ==
    (model.kind = "ProtonLPB" /\ op = "ph_sweep") =>
        \A n \in 1..Len(solves) : solves[n].prf.ph = <<solves[n].rhs>>

\* The boundary value of the solve a returned profile was reconstructed from.
TargetOfCall == evals[1].args[1]
ReturnedBoundary == evals[1].result[1].bc.val

\* C22: spatial_profiles(phi0) returns, for every phi0 (positive, negative,
\* on the grid of the 0.01 V steps or off it, and 0), the profile of a solve
\* whose boundary potential is phi0, reached by a continuation from 0 in
\* steps of 0.01 V; likewise insulator_spatial_profiles(p_h) from pH_pzc.
C22_ProfileAtTarget ==
    op \in {"spatial_profiles", "insulator_spatial_profiles"} =>
        /\ pc # "raised"
        /\ pc = "done" =>
               /\ ReturnedBoundary = TargetOfCall
               /\ \A n \in 1..Len(solves) :
                      solves[n].bc.val = Sgn(TargetOfCall) * (n - 1) * ArangeStep
\* What holds: for a target other than 0 the call returns the profile of the
\* last element of the arange, which lies within one step of the target and,
\* unless rounding adds the target to the array, short of it.
ProfileAtLastStep ==
    (op \in {"spatial_profiles", "insulator_spatial_profiles"} /\ pc = "done") =>
        /\ TargetOfCall # 0
        /\ ReturnedBoundary = potential[Len(potential)]
        /\ \A n \in 1..Len(solves) :
               solves[n].bc.val = Sgn(TargetOfCall) * (n - 1) * ArangeStep
        /\ Abs(TargetOfCall - ReturnedBoundary) <= ArangeStep
        /\ (TargetOfCall % ArangeStep # 0 => ReturnedBoundary # TargetOfCall)

C24_BulkElectroneutral ==
    \A n \in CallsOf("bulk_densities") :
        LET r == evals[n].result
            before == [i \in 1..5 |-> IF i = 5 THEN NumZero ELSE r[i]]
        IN  /\ Len(r) = 5
            /\ NumAdd(r[1], r[3]) = NumAdd(r[2], r[4])
            /\ r[5] = NumSub(CWaterBulk,
                             NumSum([i \in 1..5 |->
                                        NumScale(before[i], Gammas(model)[i])]))
\* The bulk of an instance with a valid concentration at an acidic pH, where
\* [H+] and [OH-] differ.
C24_Witness ==
    /\ pc = "returned"
    /\ Len(evals) = 1
    /\ evals[1].fn = "bulk_densities"
    /\ evals[1].args[1] = 3
    /\ model.c_0 = ValidConc
    /\ evals[1].result[1] # evals[1].result[2]

====
